---- MODULE Spec2Model ----
(***************************************************************************)
(* A model of src/src/dash_mcp_server/server.py: the four MCP tools        *)
(* (list_installed_docsets, search_documentation, enable_docset_fts,       *)
(* fetch_documentation_content), the lifecycle ladder they call            *)
(* (working_api_base_url, ensure_dash_running, get_dash_api_port,          *)
(* check_api_health) and the token budgeting loop.                         *)
(*                                                                         *)
(* Spec follows one tool invocation at a time, in full; ConcSpec follows   *)
(* the endpoint discovery of invocations running side by side.  Every      *)
(* interaction with the outside                                            *)
(* world (pgrep, open, defaults write, the status file, HTTP) is one step  *)
(* whose outcome is chosen nondeterministically, so the application may    *)
(* start, stop or change port between any two steps.                       *)
(*                                                                         *)
(* Strings the code only measures (fields of docsets and search results)   *)
(* are modelled by their length, Str(n); strings the code strips (the tool *)
(* arguments) are sequences of characters.                                 *)
(***************************************************************************)
EXTENDS Integers, Sequences, FiniteSets, TLC

(***************************************************************************)
(* Bounds of the model.                                                    *)
(***************************************************************************)
\* longest tool argument (query, docset_identifiers, identifier, load_url)
MaxStrLen == 1
\* longest upstream list (docsets / results) in a response
MaxItems == 2
\* counters of calls saturate here (the code never reaches it)
MaxCount == 3
\* longest Markdown text a fetched page converts to
MaxTextLen == 6
\* invocations in flight at once
NumInvs == 2

(***************************************************************************)
(* Program constants.                                                      *)
(***************************************************************************)
token_limit == 25000
base_overhead == 100
chars_per_token == 4

Max(a, b) == IF a >= b THEN a ELSE b

Inc(n) == IF n < MaxCount THEN n + 1 ELSE n

(***************************************************************************)
(* Strings the code strips are sequences of characters.  The tool          *)
(* arguments are drawn from a space and a letter, the Markdown of a page   *)
(* from space, tab, newline and a letter.  str.strip() removes leading and *)
(* trailing whitespace.                                                    *)
(***************************************************************************)
Whitespace == {" ", "\t", "\n"}
Chars == {" ", "a"}
TextChars == Whitespace \cup {"a"}

RECURSIVE StrsOfLen(_)
StrsOfLen(n) ==
    IF n = 0 THEN {<<>>}
    ELSE {Append(s, c) : s \in StrsOfLen(n - 1), c \in Chars}

Strs == UNION {StrsOfLen(n) : n \in 0..MaxStrLen}

RECURSIVE lstrip(_)
lstrip(s) ==
    IF s # <<>> /\ Head(s) \in Whitespace THEN lstrip(Tail(s)) ELSE s

RECURSIVE rstrip(_)
rstrip(s) ==
    IF s # <<>> /\ s[Len(s)] \in Whitespace
    THEN rstrip(SubSeq(s, 1, Len(s) - 1))
    ELSE s

strip(s) == rstrip(lstrip(s))

\* Python truthiness of a str: the empty string is falsy
Truthy(s) == s # <<>>

(***************************************************************************)
(* The whitespace clean-up of fetch_documentation_content.                 *)
(***************************************************************************)
RECURSIVE TextsOfLen(_)
TextsOfLen(n) ==
    IF n = 0 THEN {<<>>}
    ELSE {Append(s, c) : s \in TextsOfLen(n - 1), c \in TextChars}

Texts == UNION {TextsOfLen(n) : n \in 0..MaxTextLen}

\* the length of the longest prefix of s made of characters of S
RECURSIVE RunLen(_, _)
RunLen(s, S) ==
    IF s # <<>> /\ Head(s) \in S THEN 1 + RunLen(Tail(s), S) ELSE 0

Drop(s, k) == SubSeq(s, k + 1, Len(s))

\* re.sub(r'\n{3,}', '\n\n', s): every maximal run of three or more newlines
\* becomes two
RECURSIVE collapse_newlines(_)
collapse_newlines(s) ==
    IF s = <<>> THEN <<>>
    ELSE LET k == RunLen(s, {"\n"})
         IN  IF k >= 3 THEN <<"\n", "\n">> \o collapse_newlines(Drop(s, k))
             ELSE IF k > 0 THEN SubSeq(s, 1, k) \o collapse_newlines(Drop(s, k))
             ELSE <<Head(s)>> \o collapse_newlines(Tail(s))

\* re.sub(r'[ \t]+$', '', s, flags=re.MULTILINE): every maximal run of spaces
\* and tabs that ends at a newline or at the end of the text is removed
RECURSIVE strip_trailing_whitespace(_)
strip_trailing_whitespace(s) ==
    IF s = <<>> THEN <<>>
    ELSE LET k == RunLen(s, {" ", "\t"})
         IN  IF k = 0 THEN <<Head(s)>> \o strip_trailing_whitespace(Tail(s))
             ELSE IF k = Len(s) \/ s[k + 1] = "\n"
                  THEN strip_trailing_whitespace(Drop(s, k))
                  ELSE SubSeq(s, 1, k) \o strip_trailing_whitespace(Drop(s, k))

\* the three steps in the order of the code
markdown_cleanup(s) == strip(strip_trailing_whitespace(collapse_newlines(s)))

(***************************************************************************)
(* Values of item fields: a string of n characters, or None.               *)
(***************************************************************************)
Str(n) == <<"str", n>>
None == <<"None">>
IsStr(v) == v[1] = "str"

RECURSIVE SumOver(_, _)
SumOver(f, S) ==
    IF S = {} THEN 0
    ELSE LET k == CHOOSE k \in S : TRUE
         IN  f[k] + SumOver(f, S \ {k})

\* the division rounded up in place of down
estimate_tokens_value_RoundUp(v) ==
    IF IsStr(v) THEN Max(1, (v[2] + chars_per_token - 1) \div chars_per_token)
    ELSE Max(1, (Len("None") + chars_per_token - 1) \div chars_per_token)

\* estimate_tokens on a str, and on None (the else branch: len(str(None)))
estimate_tokens_value(v) ==
    IF IsStr(v) THEN Max(1, v[2] \div chars_per_token)
    ELSE Max(1, Len("None") \div chars_per_token)

\* estimate_tokens on a dict (and so on a pydantic model, through model_dump):
\* every key and every value is estimated
estimate_tokens(obj) ==
    SumOver([k \in DOMAIN obj |->
                Max(1, Len(k) \div chars_per_token) + estimate_tokens_value(obj[k])],
            DOMAIN obj)

(***************************************************************************)
(* Pydantic models.  A required field is read with item["k"] (KeyError if  *)
(* absent) and must be a str (ValidationError otherwise); an optional      *)
(* field is read with item.get("k") and defaults to None.                  *)
(***************************************************************************)
DocsetResultRequired == {"name", "identifier", "platform", "full_text_search"}
DocsetResultOptional == {"notice"}
SearchResultRequired == {"name", "type", "load_url"}
SearchResultOptional == {"platform", "docset", "description", "language", "tags"}

RequiredFields(o) ==
    IF o = "list" THEN DocsetResultRequired ELSE SearchResultRequired
OptionalFields(o) ==
    IF o = "list" THEN DocsetResultOptional ELSE SearchResultOptional

\* whether DocsetResult(...) / SearchResult(...) can be built from the item
Constructible(o, item) ==
    /\ RequiredFields(o) \subseteq DOMAIN item
    /\ \A k \in RequiredFields(o) : IsStr(item[k])

\* DocsetResult(name=docset["name"], ..., notice=docset.get("notice")) and
\* SearchResult(name=item["name"], ..., tags=item.get("tags"))
BuildResult(o, item) ==
    [k \in RequiredFields(o) \cup OptionalFields(o) |->
        IF k \in DOMAIN item THEN item[k] ELSE None]

(***************************************************************************)
(* Upstream items the responses are drawn from.  Weights as the code       *)
(* estimates them, on the built model: DocsetSmall 17, DocsetNoticed 21,   *)
(* DocsetFits 24900 (100 + 24900 = token_limit), DocsetOver 24901;         *)
(* HitSmall 31, HitFull 36, HitFits 24900, HitOver 24901.                  *)
(***************************************************************************)
DocsetSmall ==
    [name |-> Str(8), identifier |-> Str(8), platform |-> Str(4),
     full_text_search |-> Str(7)]
DocsetNoticed ==
    [name |-> Str(9), identifier |-> Str(8), platform |-> Str(3),
     full_text_search |-> Str(7), notice |-> Str(20)]
DocsetFits ==
    [name |-> Str(99540), identifier |-> Str(8), platform |-> Str(4),
     full_text_search |-> Str(7)]
DocsetOver ==
    [name |-> Str(99544), identifier |-> Str(8), platform |-> Str(4),
     full_text_search |-> Str(7)]
\* a record without "name": docset["name"] raises KeyError
DocsetBad ==
    [identifier |-> Str(8), platform |-> Str(4), full_text_search |-> Str(7)]

HitSmall == [name |-> Str(8), type |-> Str(8), load_url |-> Str(40)]
HitFull ==
    [name |-> Str(9), type |-> Str(8), load_url |-> Str(40),
     platform |-> Str(4), docset |-> Str(8), description |-> Str(20)]
HitFits == [name |-> Str(99484), type |-> Str(8), load_url |-> Str(40)]
HitOver == [name |-> Str(99488), type |-> Str(8), load_url |-> Str(40)]
\* a record without "load_url": item["load_url"] raises KeyError
HitBad == [name |-> Str(8), type |-> Str(8)]

UpstreamItems(o) ==
    IF o = "list"
    THEN {DocsetSmall, DocsetNoticed, DocsetFits, DocsetOver, DocsetBad}
    ELSE {HitSmall, HitFull, HitFits, HitOver, HitBad}

RECURSIVE SeqsOfLen(_, _)
SeqsOfLen(S, n) ==
    IF n = 0 THEN {<<>>}
    ELSE {Append(s, x) : s \in SeqsOfLen(S, n - 1), x \in S}

DocsetLists == UNION {SeqsOfLen(UpstreamItems("list"), n) : n \in 0..MaxItems}
HitLists == UNION {SeqsOfLen(UpstreamItems("search"), n) : n \in 0..MaxItems}

(***************************************************************************)
(* The budgeting loop (the same loop in list_installed_docsets and in      *)
(* search_documentation).  A loop state is the list kept so far, the       *)
(* running total, and whether the loop runs, has hit break, or has raised. *)
(***************************************************************************)
\* the upstream dict measured in place of the built model
item_tokens_raw(o, item) == estimate_tokens(item)

\* docset_tokens = estimate_tokens(docset_info): the built model is measured
item_tokens(o, item) == estimate_tokens(BuildResult(o, item))

\* the test with >= in place of >: an item that fits exactly is dropped
exceeds_limit_AtLimit(current, tokens) == current + tokens >= token_limit

\* the test without the tokens of the item at hand
exceeds_limit_NoItem(current, tokens) == current > token_limit

\* if current_tokens + docset_tokens > token_limit
exceeds_limit(current, tokens) == current + tokens > token_limit

\* continue in place of break: the item is skipped and the loop goes on
on_exceeds_continue(st) == st

\* what the loop does with an item that does not fit: break
on_exceeds(st) == [st EXCEPT !.status = "break"]

LoopInit ==
    [limited |-> <<>>, current_tokens |-> base_overhead, status |-> "running"]

loop_body(o, st, item) ==
    IF ~Constructible(o, item) THEN [st EXCEPT !.status = "raised"]
    ELSE IF exceeds_limit(st.current_tokens, item_tokens(o, item))
         THEN on_exceeds(st)
         ELSE [st EXCEPT !.limited = Append(@, BuildResult(o, item)),
                         !.current_tokens = @ + item_tokens(o, item)]

RECURSIVE run_loop(_, _, _)
run_loop(o, st, items) ==
    IF items = <<>> \/ st.status # "running" THEN st
    ELSE run_loop(o, loop_body(o, st, Head(items)), Tail(items))

\* the whole loop, from its initial state, on a list of upstream items
budgeter(o, items) == run_loop(o, LoopInit, items)

(***************************************************************************)
(* Results of the tools.  An error field is None or a message.             *)
(***************************************************************************)
Msg(text) == <<"msg", text>>

DocsetResults(docsets, error) ==
    [type |-> "DocsetResults", docsets |-> docsets, error |-> error]
SearchResults(found, error) ==
    [type |-> "SearchResults", results |-> found, error |-> error]
DocumentationContent(load_url, title, content, error) ==
    [type |-> "DocumentationContent", load_url |-> load_url, title |-> title,
     content |-> content, error |-> error]
Bool(b) == [type |-> "bool", value |-> b]
\* the tool has not returned yet
Pending == [type |-> "pending"]
\* the tool ended by raising to its caller
Raised == [type |-> "raised"]

ConnectMsg ==
    Msg("Failed to connect to Dash API Server. Please ensure Dash is running and the API server is enabled (in Dash Settings > Integration).")

(***************************************************************************)
(* Inputs.                                                                 *)
(***************************************************************************)
Ops == {"list", "search", "enable_fts", "fetch"}
MaxResultsInputs == {0, 1, 1000, 1001}

ArgsOf(o) ==
    CASE o = "list" -> {<<>>}
      [] o = "search" ->
            [query : Strs, docset_identifiers : Strs,
             max_results : MaxResultsInputs]
      [] o = "enable_fts" -> [identifier : Strs]
      [] o = "fetch" -> [load_url : Strs]

\* the checks without the upper bound of max_results
ValidationError_NoUpperBound(o, a) ==
    CASE o = "list" -> None
      [] o = "search" ->
            IF ~Truthy(strip(a.query)) THEN Msg("Query cannot be empty")
            ELSE IF ~Truthy(strip(a.docset_identifiers))
                 THEN Msg("docset_identifiers cannot be empty. Get the docset identifiers using list_installed_docsets")
            ELSE IF a.max_results < 1
                 THEN Msg("max_results must be between 1 and 1000")
            ELSE None
      [] o = "enable_fts" ->
            IF ~Truthy(strip(a.identifier))
            THEN Msg("Docset identifier cannot be empty")
            ELSE None
      [] o = "fetch" ->
            IF ~Truthy(strip(a.load_url))
            THEN Msg("load_url cannot be empty")
            ELSE None

\* the checks each tool makes before its try block: None, or the message
ValidationError(o, a) ==
    CASE o = "list" -> None
      [] o = "search" ->
            IF ~Truthy(strip(a.query)) THEN Msg("Query cannot be empty")
            ELSE IF ~Truthy(strip(a.docset_identifiers))
                 THEN Msg("docset_identifiers cannot be empty. Get the docset identifiers using list_installed_docsets")
            ELSE IF a.max_results < 1 \/ a.max_results > 1000
                 THEN Msg("max_results must be between 1 and 1000")
            ELSE None
      [] o = "enable_fts" ->
            IF ~Truthy(strip(a.identifier))
            THEN Msg("Docset identifier cannot be empty")
            ELSE None
      [] o = "fetch" ->
            IF ~Truthy(strip(a.load_url))
            THEN Msg("load_url cannot be empty")
            ELSE None

\* what the tool returns on a validation error
ValidationResult(o, a) ==
    CASE o = "search" -> SearchResults(<<>>, ValidationError(o, a))
      [] o = "enable_fts" -> Bool(FALSE)
      [] o = "fetch" ->
            DocumentationContent(a.load_url, "Error", <<>>, ValidationError(o, a))
      [] o = "list" -> Pending

\* enable_docset_fts going straight to its request
FirstStep_SkipForEnable(o) ==
    CASE o = "fetch" -> "fetch_get"
      [] o = "enable_fts" -> "request"
      [] OTHER -> "working_api_base_url"

\* the first thing a tool does once its arguments are accepted
FirstStep(o) == IF o = "fetch" THEN "fetch_get" ELSE "working_api_base_url"

\* if base_url is None: return ...
ConnectivityResult(o) ==
    CASE o = "list" -> DocsetResults(<<>>, ConnectMsg)
      [] o = "search" -> SearchResults(<<>>, ConnectMsg)
      [] o = "enable_fts" -> Bool(FALSE)

\* a last handler that raises again
HandlerExcept_Reraise(o, a) == Raised

\* the tools' last handler, except Exception as e
HandlerExcept(o, a) ==
    CASE o = "list" ->
            DocsetResults(<<>>, Msg("Failed to get installed docsets: {e}"))
      [] o = "search" ->
            SearchResults(<<>>, Msg("Search failed: {e}. Please ensure Dash is running and the API server is enabled (in Dash Settings > Integration)."))
      [] o = "enable_fts" -> Bool(FALSE)
      [] o = "fetch" ->
            DocumentationContent(a.load_url, "Error", <<>>,
                                 Msg("Failed to fetch content: {e}"))

(***************************************************************************)
(* State.                                                                  *)
(***************************************************************************)
VARIABLES
    pc,               \* where the running tool is ("idle": none is running)
    op,               \* the tool invoked
    args,             \* its arguments
    calls,            \* what this invocation has done so far, counted
    dash_running,     \* working_api_base_url: what ensure_dash_running returned
    caller,           \* which call of get_dash_api_port runs: "first", "retry"
    status_data,      \* get_dash_api_port: what it found in status.json
    status_port,      \* get_dash_api_port: the port read from status.json
    health,           \* get_dash_api_port: what check_api_health returned
    port,             \* working_api_base_url: its variable port
    base_url,         \* the tool's variable base_url
    results,          \* the upstream list (docsets / results)
    warning_message,  \* search_documentation: the response's message
    idx,              \* the loop's position in the upstream list
    limited,          \* limited_docsets / limited_results
    current_tokens,   \* the running total of the loop
    log,              \* the truncation notices sent to ctx
    response,         \* what the tool's GET came back with
    result,           \* what the tool returned
    inv,              \* concurrent invocations: the locals of each
    app,              \* the application: stopped, running without API, or its port
    status_file       \* what status.json holds

vars ==
    <<pc, op, args, calls, dash_running, caller, status_data, status_port, health, port, base_url, results,
      warning_message, idx, limited, current_tokens, log, response, result,
      inv, app, status_file>>

\* the variables of one invocation followed alone
seqVars ==
    <<pc, op, args, calls, dash_running, caller, status_data, status_port, health,
      port, base_url, results, warning_message, idx, limited, current_tokens, log,
      response, result>>
\* the variables of invocations running side by side, and of the application
concVars == <<inv, app, status_file>>

lifeVars == <<dash_running, caller, status_data, status_port, health, port>>
\* the variables of get_dash_api_port and the port it returned
portVars == <<status_data, status_port, health, port>>
loopVars == <<results, warning_message, idx, limited, current_tokens, log>>

Ports == {"49152", "49153"}
BaseUrl(p) == <<"http://127.0.0.1:", p>>

NoCalls ==
    [working_api_base_url |-> 0, check_dash_running |-> 0, launch |-> 0,
     open |-> 0, get_dash_api_port |-> 0, check_api_health |-> 0,
     enable |-> 0, defaults_write |-> 0, sleep |-> 0, enable_sleep |-> 0,
     request |-> 0]

Count(c, what) == [c EXCEPT ![what] = Inc(@)]

\* no GET has been made
NoResponse == [kind |-> "none"]

\* the invocations that may run side by side
Invs == 1..NumInvs

\* the locals of an invocation that has not started: no status record read, no
\* port, no base URL, no request made, no port probed
IdleInv ==
    [pc |-> "idle", caller |-> "none", status_port |-> "unset",
     port |-> "unset", base_url |-> <<"unset">>, requested |-> None,
     probed |-> {}]

Init ==
    /\ pc = "idle"
    /\ op = "none"
    /\ args = <<>>
    /\ calls = NoCalls
    /\ dash_running = "unset"
    /\ caller = "none"
    /\ status_data = "unset"
    /\ status_port = "unset"
    /\ health = "unset"
    /\ port = "unset"
    /\ base_url = <<"unset">>
    /\ results = <<>>
    /\ warning_message = None
    /\ idx = 1
    /\ limited = <<>>
    /\ current_tokens = base_overhead
    /\ log = {}
    /\ response = NoResponse
    /\ result = Pending
    /\ inv = [i \in Invs |-> IdleInv]
    /\ app = "stopped"
    /\ status_file = "missing"

(***************************************************************************)
(* A tool is invoked: its validation runs, and on an error it returns      *)
(* before anything else.                                                   *)
(***************************************************************************)
Invoke(o, a) ==
    /\ pc = "idle"
    /\ op' = o
    /\ args' = a
    /\ IF ValidationError(o, a) # None
       THEN pc' = "done" /\ result' = ValidationResult(o, a)
       ELSE pc' = FirstStep(o) /\ UNCHANGED result
    /\ UNCHANGED <<calls, lifeVars, base_url, loopVars, response>>
    /\ UNCHANGED concVars

(***************************************************************************)
(* working_api_base_url and what it calls.                                 *)
(***************************************************************************)
NoPort == "None"

PgrepOutcomes == {"found", "not_found", "error"}
\* result.returncode == 0, and False on any exception
check_dash_running(r) == r = "found"

RunOutcomes == {"rc0", "rc_nonzero", "exception"}

StatusRecords ==
    {"missing", "malformed", "unreadable", "non_object", "no_port"} \cup Ports

HealthOutcomes == {"ok", "bad_status", "timeout", "refused"}
\* True when the GET of /health returns a success status, False otherwise
check_api_health(h) == h = "ok"

\* a tool that goes on to its request whatever working_api_base_url returned
ToolGets_Ignore(v) ==
    /\ base_url' = IF v = NoPort THEN None ELSE BaseUrl(v)
    /\ pc' = "request"
    /\ UNCHANGED result

\* base_url = await working_api_base_url(ctx); if base_url is None: return ...
ToolGets(v) ==
    IF v = NoPort
    THEN /\ base_url' = None
         /\ pc' = "done"
         /\ result' = ConnectivityResult(op)
    ELSE /\ base_url' = BaseUrl(v)
         /\ pc' = "request"
         /\ UNCHANGED result

\* a working_api_base_url that writes the settings after the first discovery
\* whether or not it found a port
GetReturns_EnableAnyway(v) ==
    /\ port' = v
    /\ IF caller = "first"
       THEN pc' = "enable_api" /\ UNCHANGED <<base_url, result>>
       ELSE ToolGets(v)

\* a working_api_base_url that tries to enable the API again when the
\* discovery after the remediation finds no port
GetReturns_RetryAgain(v) ==
    /\ port' = v
    /\ IF v # NoPort THEN ToolGets(v)
       ELSE pc' = "enable_api" /\ UNCHANGED <<base_url, result>>

\* get_dash_api_port returns v to working_api_base_url
GetReturns(v) ==
    /\ port' = v
    /\ IF v # NoPort THEN ToolGets(v)
       ELSE IF caller = "first"
            THEN pc' = "enable_api" /\ UNCHANGED <<base_url, result>>
            ELSE ToolGets(NoPort)

\* get_dash_api_port raises: the first call is outside the try block of
\* working_api_base_url, so the tool's handler sees it; the retry is inside
GetRaises ==
    /\ UNCHANGED port
    /\ IF caller = "first"
       THEN /\ pc' = "done"
            /\ result' = HandlerExcept(op, args)
            /\ UNCHANGED base_url
       ELSE ToolGets(NoPort)

WorkingApiBaseUrl ==
    /\ pc = "working_api_base_url"
    /\ calls' = Count(calls, "working_api_base_url")
    /\ pc' = "ensure_dash_running"
    /\ UNCHANGED <<op, args, response, lifeVars, base_url, loopVars, result>>
    /\ UNCHANGED concVars

\* a working_api_base_url that goes on to discovery whatever
\* ensure_dash_running returned
EnsureReturns_Ignore(b) ==
    /\ dash_running' = b
    /\ pc' = "get_dash_api_port"
    /\ caller' = "first"
    /\ UNCHANGED <<base_url, result>>

\* dash_running = await ensure_dash_running(ctx);
\* if not dash_running: return None
EnsureReturns(b) ==
    /\ dash_running' = b
    /\ IF b = "True"
       THEN /\ pc' = "get_dash_api_port"
            /\ caller' = "first"
            /\ UNCHANGED <<base_url, result>>
       ELSE ToolGets(NoPort) /\ UNCHANGED caller

\* ensure_dash_running goes on to its next step
EnsureGoes(next) ==
    /\ pc' = next
    /\ UNCHANGED <<dash_running, caller, base_url, result>>

\* ensure_dash_running: the first check_dash_running()
EnsureDashRunning ==
    /\ pc = "ensure_dash_running"
    /\ calls' = Count(calls, "check_dash_running")
    /\ \E r \in PgrepOutcomes :
        IF check_dash_running(r)
        THEN EnsureReturns("True")
        ELSE EnsureGoes("launch")
    /\ UNCHANGED <<op, args, response, portVars, loopVars>>
    /\ UNCHANGED concVars

\* open -g -j -b com.kapeli.dashdoc
Launch ==
    /\ pc = "launch"
    /\ calls' = Count(Count(calls, "launch"), "open")
    /\ \E r \in RunOutcomes :
        CASE r = "rc0" -> EnsureGoes("launch_sleep")
          [] r = "rc_nonzero" -> EnsureGoes("launch_setapp")
          [] r = "exception" -> EnsureReturns("False")
    /\ UNCHANGED <<op, args, response, portVars, loopVars>>
    /\ UNCHANGED concVars

\* open -g -j -b com.kapeli.dash-setapp, check=True
LaunchSetapp ==
    /\ pc = "launch_setapp"
    /\ calls' = Count(calls, "open")
    /\ \E r \in RunOutcomes :
        IF r = "rc0"
        THEN EnsureGoes("launch_sleep")
        ELSE EnsureReturns("False")
    /\ UNCHANGED <<op, args, response, portVars, loopVars>>
    /\ UNCHANGED concVars

\* time.sleep(4)
LaunchSleep ==
    /\ pc = "launch_sleep"
    /\ calls' = Count(calls, "sleep")
    /\ pc' = "recheck"
    /\ UNCHANGED <<op, args, response, lifeVars, base_url, loopVars, result>>
    /\ UNCHANGED concVars

\* the second check_dash_running(), after which a failure is final
Recheck_Relaunch ==
    /\ pc = "recheck"
    /\ calls' = Count(calls, "check_dash_running")
    /\ \E r \in PgrepOutcomes :
        IF check_dash_running(r)
        THEN EnsureReturns("True")
        ELSE EnsureGoes("launch")
    /\ UNCHANGED <<op, args, response, portVars, loopVars>>
    /\ UNCHANGED concVars

Recheck ==
    /\ pc = "recheck"
    /\ calls' = Count(calls, "check_dash_running")
    /\ \E r \in PgrepOutcomes :
        IF check_dash_running(r)
        THEN EnsureReturns("True")
        ELSE EnsureReturns("False")
    /\ UNCHANGED <<op, args, response, portVars, loopVars>>
    /\ UNCHANGED concVars

\* the records get_dash_api_port answers with None: FileNotFoundError and
\* json.JSONDecodeError are caught, and 'if port is None' sees a missing port;
\* open() failing otherwise (PermissionError) and .get on JSON that is not an
\* object (AttributeError) are not caught
Caught == {"missing", "malformed", "no_port"}

\* get_dash_api_port: open and parse status.json, read its port
GetDashApiPort ==
    /\ pc = "get_dash_api_port"
    /\ calls' = Count(calls, "get_dash_api_port")
    /\ health' = "unset"
    /\ \E rec \in StatusRecords :
        /\ status_data' = rec
        /\ CASE rec \in Ports ->
                   /\ status_port' = rec
                   /\ pc' = "check_api_health"
                   /\ UNCHANGED <<port, base_url, result>>
             [] rec \in Caught ->
                   status_port' = NoPort /\ GetReturns(NoPort)
             [] OTHER ->
                   status_port' = "unset" /\ GetRaises
    /\ UNCHANGED <<op, args, response, dash_running, caller, loopVars>>
    /\ UNCHANGED concVars

\* get_dash_api_port: the port is returned only if check_api_health says so
CheckApiHealth_TrustPort ==
    /\ pc = "check_api_health"
    /\ calls' = Count(calls, "check_api_health")
    /\ \E h \in HealthOutcomes :
        /\ health' = IF check_api_health(h) THEN "ok" ELSE "failed"
        /\ GetReturns(status_port)
    /\ UNCHANGED <<op, args, response, dash_running, caller, status_data,
                   status_port, loopVars>>
    /\ UNCHANGED concVars

CheckApiHealth ==
    /\ pc = "check_api_health"
    /\ calls' = Count(calls, "check_api_health")
    /\ \E h \in HealthOutcomes :
        /\ health' = IF check_api_health(h) THEN "ok" ELSE "failed"
        /\ GetReturns(IF check_api_health(h) THEN status_port ELSE NoPort)
    /\ UNCHANGED <<op, args, response, dash_running, caller, status_data,
                   status_port, loopVars>>
    /\ UNCHANGED concVars

DefaultsOutcomes == {"ok", "failed", "timeout"}

\* defaults write com.kapeli.dashdoc DHAPIServerEnabled YES
EnableApi ==
    /\ pc = "enable_api"
    /\ calls' = Count(Count(calls, "enable"), "defaults_write")
    /\ \E r \in DefaultsOutcomes :
        IF r = "ok"
        THEN pc' = "enable_api_setapp" /\ UNCHANGED <<base_url, result>>
        ELSE ToolGets(NoPort)
    /\ UNCHANGED <<op, args, response, lifeVars, loopVars>>
    /\ UNCHANGED concVars

\* defaults write com.kapeli.dash-setapp DHAPIServerEnabled YES
EnableApiSetapp ==
    /\ pc = "enable_api_setapp"
    /\ calls' = Count(calls, "defaults_write")
    /\ \E r \in DefaultsOutcomes :
        IF r = "ok"
        THEN pc' = "enable_sleep" /\ UNCHANGED <<base_url, result>>
        ELSE ToolGets(NoPort)
    /\ UNCHANGED <<op, args, response, lifeVars, loopVars>>
    /\ UNCHANGED concVars

\* time.sleep(2), then get_dash_api_port again
EnableSleep ==
    /\ pc = "enable_sleep"
    /\ calls' = Count(Count(calls, "sleep"), "enable_sleep")
    /\ pc' = "get_dash_api_port"
    /\ caller' = "retry"
    /\ UNCHANGED <<op, args, response, dash_running, portVars, base_url, loopVars,
                   result>>
    /\ UNCHANGED concVars

(***************************************************************************)
(* The data requests.  An error body is the set of the phrases the tools   *)
(* look for that it contains.                                              *)
(***************************************************************************)
ErrorBodies ==
    {{},
     {"Docset with identifier", "not found"},
     {"not found"},
     {"No docsets found"},
     {"API access blocked due to Dash trial expiration"}}
ErrorStatuses == {400, 403, 404, 500}
Messages == {None, Msg("advisory")}

\* what can come back from GET {base_url}/docsets/list, /search, /docsets/enable_fts:
\* a transport error or timeout, an error status, a success whose body is not
\* JSON, a success whose JSON body is not an object, or (below) a usable body
Failures ==
    {[kind |-> "transport_error"], [kind |-> "bad_json"], [kind |-> "non_object"]}
    \cup [kind : {"status"}, status : ErrorStatuses, body : ErrorBodies]

ListResponses ==
    Failures \cup [kind : {"ok"}, items : DocsetLists, message : {None}]
SearchResponses ==
    Failures \cup [kind : {"ok"}, items : HitLists, message : Messages]
EnableFtsResponses == Failures \cup {[kind |-> "ok"]}

\* list_installed_docsets: except httpx.HTTPStatusError as e
ListHttpError(status) ==
    IF status = 404
    THEN DocsetResults(<<>>, Msg("No docsets found. Instruct the user to install some docsets in Settings > Downloads."))
    ELSE DocsetResults(<<>>, Msg("HTTP error: {e}"))

InvalidDocsetIdentifierMsg ==
    Msg("Invalid docset identifier. Run list_installed_docsets to see available docsets, then use the exact identifier from that list.")

\* either phrase taken for the unknown identifier, in place of both
SearchHttpError_EitherPhrase(status, body) ==
    IF status = 400
    THEN IF "Docset with identifier" \in body \/ "not found" \in body
         THEN SearchResults(<<>>, InvalidDocsetIdentifierMsg)
         ELSE IF "No docsets found" \in body
         THEN SearchResults(<<>>, Msg("No valid docsets found for search. Either provide valid docset identifiers from list_installed_docsets, or set search_snippets=true to search snippets only."))
         ELSE SearchResults(<<>>, Msg("Bad request: {error_text}. Please ensure Dash is running and the API server is enabled (in Dash Settings > Integration)."))
    ELSE IF status = 403
    THEN IF "API access blocked due to Dash trial expiration" \in body
         THEN SearchResults(<<>>, Msg("Your Dash trial has expired. Purchase Dash at https://kapeli.com/dash to continue using the API. During trial expiration, API access is blocked."))
         ELSE SearchResults(<<>>, Msg("Forbidden: {error_text}. Please ensure Dash is running and the API server is enabled (in Dash Settings > Integration)."))
    ELSE SearchResults(<<>>, Msg("HTTP error: {e}. Please ensure Dash is running and the API server is enabled (in Dash Settings > Integration)."))

\* search_documentation: except httpx.HTTPStatusError as e
SearchHttpError(status, body) ==
    IF status = 400
    THEN IF "Docset with identifier" \in body /\ "not found" \in body
         THEN SearchResults(<<>>, InvalidDocsetIdentifierMsg)
         ELSE IF "No docsets found" \in body
         THEN SearchResults(<<>>, Msg("No valid docsets found for search. Either provide valid docset identifiers from list_installed_docsets, or set search_snippets=true to search snippets only."))
         ELSE SearchResults(<<>>, Msg("Bad request: {error_text}. Please ensure Dash is running and the API server is enabled (in Dash Settings > Integration)."))
    ELSE IF status = 403
    THEN IF "API access blocked due to Dash trial expiration" \in body
         THEN SearchResults(<<>>, Msg("Your Dash trial has expired. Purchase Dash at https://kapeli.com/dash to continue using the API. During trial expiration, API access is blocked."))
         ELSE SearchResults(<<>>, Msg("Forbidden: {error_text}. Please ensure Dash is running and the API server is enabled (in Dash Settings > Integration)."))
    ELSE SearchResults(<<>>, Msg("HTTP error: {e}. Please ensure Dash is running and the API server is enabled (in Dash Settings > Integration)."))

Finish(r) == pc' = "done" /\ result' = r

\* the response as the handlers see it: its kind, and for an error status
\* e.response.status_code and the phrases of e.response.text
Received(resp) ==
    IF resp.kind = "status" THEN resp ELSE [kind |-> resp.kind]

\* token_limit = 25000; current_tokens = 100; limited_docsets = []
StartLoop(items, message) ==
    /\ results' = items
    /\ warning_message' = message
    /\ idx' = 1
    /\ limited' = LoopInit.limited
    /\ current_tokens' = LoopInit.current_tokens
    /\ pc' = IF items = <<>> THEN "loop_exit" ELSE "loop"
    /\ UNCHANGED <<result, log>>

\* list_installed_docsets: the GET of /docsets/list, up to the loop
ListRequest ==
    /\ pc = "request" /\ op = "list"
    /\ calls' = Count(calls, "request")
    /\ \E resp \in ListResponses :
        /\ response' = Received(resp)
        /\ CASE resp.kind = "ok" -> StartLoop(resp.items, None)
             [] resp.kind = "status" ->
                   Finish(ListHttpError(resp.status)) /\ UNCHANGED loopVars
             [] OTHER -> Finish(HandlerExcept(op, args)) /\ UNCHANGED loopVars
    /\ UNCHANGED <<op, args, lifeVars, base_url>>
    /\ UNCHANGED concVars

\* search_documentation: the GET of /search, up to the loop
SearchRequest ==
    /\ pc = "request" /\ op = "search"
    /\ calls' = Count(calls, "request")
    /\ \E resp \in SearchResponses :
        /\ response' = Received(resp)
        /\ CASE resp.kind = "ok" -> StartLoop(resp.items, resp.message)
             [] resp.kind = "status" ->
                   Finish(SearchHttpError(resp.status, resp.body))
                   /\ UNCHANGED loopVars
             [] OTHER -> Finish(HandlerExcept(op, args)) /\ UNCHANGED loopVars
    /\ UNCHANGED <<op, args, lifeVars, base_url>>
    /\ UNCHANGED concVars

\* a success status taken for success whatever the body
EnableFtsResult_StatusOnly(resp) ==
    Bool(resp.kind \in {"ok", "non_object", "bad_json"})

\* enable_docset_fts: True after raise_for_status() and response.json() passed
EnableFtsResult(resp) == Bool(resp.kind \in {"ok", "non_object"})

\* enable_docset_fts: the GET of /docsets/enable_fts and the return
EnableFtsRequest ==
    /\ pc = "request" /\ op = "enable_fts"
    /\ calls' = Count(calls, "request")
    /\ \E resp \in EnableFtsResponses :
        /\ response' = Received(resp)
        \* result = response.json() is not looked at: any JSON body will do
        /\ Finish(EnableFtsResult(resp))
    /\ UNCHANGED <<op, args, lifeVars, base_url, loopVars>>
    /\ UNCHANGED concVars

\* await ctx.warning("Token limit reached. Returning {n} of {m} ...")
TokenLimitWarning(kept, items) ==
    {<<"warning", "Token limit reached", Len(kept), Len(items)>>}

\* the notice sent with <= in place of <
TruncationInfo_Always(kept, items) ==
    IF Len(kept) <= Len(items)
    THEN {<<"info", "truncated", Len(kept), Len(items)>>}
    ELSE {}

\* if len(limited_docsets) < len(docsets): await ctx.info("Returned {n} ...")
TruncationInfo(kept, items) ==
    IF Len(kept) < Len(items)
    THEN {<<"info", "truncated", Len(kept), Len(items)>>}
    ELSE {}

\* one iteration of the for loop
LoopStep ==
    /\ pc = "loop"
    /\ \E st \in {loop_body(op,
                            [limited |-> limited, current_tokens |-> current_tokens,
                             status |-> "running"],
                            results[idx])} :
        CASE st.status = "raised" ->
                /\ Finish(HandlerExcept(op, args))
                /\ UNCHANGED <<idx, limited, current_tokens, log>>
          [] st.status = "break" ->
                /\ log' = log \cup TokenLimitWarning(limited, results)
                /\ pc' = "loop_exit"
                /\ UNCHANGED <<idx, limited, current_tokens, result>>
          [] st.status = "running" ->
                /\ limited' = st.limited
                /\ current_tokens' = st.current_tokens
                /\ idx' = idx + 1
                /\ pc' = IF idx + 1 > Len(results) THEN "loop_exit" ELSE "loop"
                /\ UNCHANGED <<log, result>>
    /\ UNCHANGED <<op, args, response, calls, lifeVars, base_url, results, warning_message>>
    /\ UNCHANGED concVars

\* a message of the response taken as fatal: it is returned without the hits
LoopReturn_MessageFatal ==
    /\ pc = "loop_exit"
    /\ log' = log \cup TruncationInfo(limited, results)
    /\ Finish(IF op = "list" THEN DocsetResults(limited, None)
              ELSE IF warning_message # None
                   THEN SearchResults(<<>>, warning_message)
                   ELSE SearchResults(limited, warning_message))
    /\ UNCHANGED <<op, args, response, calls, lifeVars, base_url, results,
                   warning_message, idx, limited, current_tokens>>
    /\ UNCHANGED concVars

\* after the loop: the truncation notice and the return
LoopReturn ==
    /\ pc = "loop_exit"
    /\ log' = log \cup TruncationInfo(limited, results)
    /\ Finish(IF op = "list" THEN DocsetResults(limited, None)
              ELSE SearchResults(limited, warning_message))
    /\ UNCHANGED <<op, args, response, calls, lifeVars, base_url, results, warning_message,
                   idx, limited, current_tokens>>
    /\ UNCHANGED concVars

(***************************************************************************)
(* fetch_documentation_content: the GET of load_url and the conversion.    *)
(* A page is whether it has a title element, and the Markdown text that   *)
(* markdownify makes of it.                                                *)
(***************************************************************************)
Pages == [title : {"with_title", "no_title"}, markdown : Texts]
FetchResponses ==
    {[kind |-> "transport_error"], [kind |-> "convert_error"]}
    \cup [kind : {"status"}, status : ErrorStatuses]
    \cup [kind : {"ok"}, page : Pages]

FetchGet ==
    /\ pc = "fetch_get"
    /\ calls' = Count(calls, "request")
    /\ \E resp \in FetchResponses :
        /\ response' = [kind |-> resp.kind]
        /\ CASE resp.kind = "ok" ->
                Finish(DocumentationContent(
                           args.load_url,
                           IF resp.page.title = "with_title"
                           THEN "title_elem.get_text(strip=True)"
                           ELSE "Documentation",
                           markdown_cleanup(resp.page.markdown), None))
             [] resp.kind = "status" ->
                Finish(DocumentationContent(
                           args.load_url, "Error", <<>>,
                           Msg("HTTP error {status_code}: {reason_phrase}")))
             [] OTHER -> Finish(HandlerExcept(op, args))
    /\ UNCHANGED <<op, args, lifeVars, base_url, loopVars>>
    /\ UNCHANGED concVars

\* the tool has returned; the server waits for the next invocation
Return ==
    /\ pc = "done"
    /\ pc' = "idle"
    /\ op' = "none"
    /\ args' = <<>>
    /\ calls' = NoCalls
    /\ dash_running' = "unset"
    /\ caller' = "none"
    /\ status_data' = "unset"
    /\ status_port' = "unset"
    /\ health' = "unset"
    /\ port' = "unset"
    /\ base_url' = <<"unset">>
    /\ results' = <<>>
    /\ warning_message' = None
    /\ idx' = 1
    /\ limited' = <<>>
    /\ current_tokens' = base_overhead
    /\ log' = {}
    /\ response' = NoResponse
    /\ result' = Pending
    /\ UNCHANGED concVars

\* the steps of working_api_base_url
Ladder ==
    \/ WorkingApiBaseUrl
    \/ EnsureDashRunning
    \/ Launch
    \/ LaunchSetapp
    \/ LaunchSleep
    \/ Recheck
    \/ GetDashApiPort
    \/ CheckApiHealth
    \/ EnableApi
    \/ EnableApiSetapp
    \/ EnableSleep

\* the steps of the tools themselves
Tool ==
    \/ ListRequest
    \/ SearchRequest
    \/ EnableFtsRequest
    \/ LoopStep
    \/ LoopReturn
    \/ FetchGet

Next ==
    \/ \E o \in Ops : \E a \in ArgsOf(o) : Invoke(o, a)
    \/ Ladder
    \/ Tool
    \/ Return

Spec == Init /\ [][Next]_vars

\* every blocking call of working_api_base_url has a timeout (pgrep 5 s, open
\* and defaults 10 s, the health probe 5 s) and its sleeps are fixed, so a
\* call of it always takes its next step
FairSpec == Spec /\ WF_vars(Ladder)

(***************************************************************************)
(* Invocations side by side.  The tools are coroutines of one event loop:  *)
(* an invocation may be suspended at an await (the ctx.* calls between its *)
(* steps) while another runs, and the application may stop, or start on    *)
(* another port, between any two steps.  Every variable of                 *)
(* working_api_base_url and get_dash_api_port is a local of the call;      *)
(* the module has no variable that holds a port or a URL.  Here the launch *)
(* (both open commands and the wait) and the remediation (both defaults    *)
(* writes and the wait) are one step each; pgrep looks for any process     *)
(* named Dash, so its outcome is not tied to the application modelled.     *)
(***************************************************************************)
AppStates == {"not_serving"} \cup Ports

\* a base URL made of the port another invocation found, as a cache of the
\* last working port kept in the module would give
working_url_Cached(i, p) ==
    IF \E j \in Invs \ {i} : inv[j].port \in Ports
    THEN BaseUrl(inv[CHOOSE j \in Invs \ {i} : inv[j].port \in Ports].port)
    ELSE BaseUrl(p)

\* return f"http://127.0.0.1:{port}", port being the local of the call
working_url(i, p) == BaseUrl(p)

\* base_url = await working_api_base_url(ctx); if base_url is None: return ...
CToolGets(i, l, v) ==
    IF v = NoPort
    THEN [l EXCEPT !.base_url = None, !.pc = "done"]
    ELSE [l EXCEPT !.base_url = working_url(i, v), !.pc = "request"]

\* get_dash_api_port returns v to working_api_base_url
CGetReturns(i, l, v) ==
    LET m == [l EXCEPT !.port = v]
    IN  IF v # NoPort THEN CToolGets(i, m, v)
        ELSE IF l.caller = "first" THEN [m EXCEPT !.pc = "enable_api"]
        ELSE CToolGets(i, m, NoPort)

\* get_dash_api_port raises
CGetRaises(i, l) ==
    IF l.caller = "first" THEN [l EXCEPT !.pc = "done"]
    ELSE CToolGets(i, l, NoPort)

Becomes(i, l) ==
    /\ inv' = [inv EXCEPT ![i] = l]
    /\ UNCHANGED <<app, status_file, seqVars>>

\* a tool that needs the API is invoked with valid arguments
CInvoke(i) ==
    /\ inv[i].pc = "idle"
    /\ Becomes(i, [inv[i] EXCEPT !.pc = "ensure_dash_running"])

CEnsureDashRunning(i) ==
    /\ inv[i].pc = "ensure_dash_running"
    /\ \E r \in PgrepOutcomes :
        IF check_dash_running(r)
        THEN Becomes(i, [inv[i] EXCEPT !.pc = "get_dash_api_port",
                                         !.caller = "first"])
        ELSE Becomes(i, [inv[i] EXCEPT !.pc = "launch"])

CLaunch(i) ==
    /\ inv[i].pc = "launch"
    /\ \E r \in RunOutcomes :
        IF r = "rc0"
        THEN Becomes(i, [inv[i] EXCEPT !.pc = "recheck"])
        ELSE Becomes(i, CToolGets(i, inv[i], NoPort))

CRecheck(i) ==
    /\ inv[i].pc = "recheck"
    /\ \E r \in PgrepOutcomes :
        IF check_dash_running(r)
        THEN Becomes(i, [inv[i] EXCEPT !.pc = "get_dash_api_port",
                                         !.caller = "first"])
        ELSE Becomes(i, CToolGets(i, inv[i], NoPort))

\* get_dash_api_port reads the file as it is now
CGetDashApiPort(i) ==
    /\ inv[i].pc = "get_dash_api_port"
    /\ CASE status_file \in Ports ->
                Becomes(i, [inv[i] EXCEPT !.status_port = status_file,
                                          !.pc = "check_api_health"])
          [] status_file \in Caught ->
                Becomes(i, CGetReturns(i, [inv[i] EXCEPT !.status_port = NoPort],
                                       NoPort))
          [] OTHER -> Becomes(i, CGetRaises(i, inv[i]))

\* the probe of the port just read succeeds only if the application serves it
CCheckApiHealth(i) ==
    /\ inv[i].pc = "check_api_health"
    /\ \E h \in IF app = inv[i].status_port THEN HealthOutcomes
                 ELSE HealthOutcomes \ {"ok"} :
        IF check_api_health(h)
        THEN Becomes(i, CGetReturns(i,
                            [inv[i] EXCEPT !.probed = @ \cup {inv[i].status_port}],
                            inv[i].status_port))
        ELSE Becomes(i, CGetReturns(i, inv[i], NoPort))

CEnableApi(i) ==
    /\ inv[i].pc = "enable_api"
    /\ \E r \in DefaultsOutcomes :
        IF r = "ok"
        THEN Becomes(i, [inv[i] EXCEPT !.pc = "get_dash_api_port",
                                         !.caller = "retry"])
        ELSE Becomes(i, CToolGets(i, inv[i], NoPort))

\* client.get(f"{base_url}/...")
CRequest(i) ==
    /\ inv[i].pc = "request"
    /\ Becomes(i, [inv[i] EXCEPT !.requested = inv[i].base_url, !.pc = "done"])

\* the tool returns and its locals are gone
CReturn(i) ==
    /\ inv[i].pc = "done"
    /\ Becomes(i, IdleInv)

\* the application starts serving on port p and writes its status record
AppStarts(p) ==
    /\ app # p
    /\ app' = p
    /\ status_file' = p
    /\ UNCHANGED <<inv, seqVars>>

\* the application stops serving; its status record stays behind
AppStops ==
    /\ app \in Ports
    /\ app' = "not_serving"
    /\ UNCHANGED <<status_file, inv, seqVars>>

\* the status record is removed or damaged
FileLost(rec) ==
    /\ status_file # rec
    /\ status_file' = rec
    /\ UNCHANGED <<app, inv, seqVars>>

ConcNext ==
    \/ \E i \in Invs : CInvoke(i)
    \/ \E i \in Invs : CEnsureDashRunning(i)
    \/ \E i \in Invs : CLaunch(i)
    \/ \E i \in Invs : CRecheck(i)
    \/ \E i \in Invs : CGetDashApiPort(i)
    \/ \E i \in Invs : CCheckApiHealth(i)
    \/ \E i \in Invs : CEnableApi(i)
    \/ \E i \in Invs : CRequest(i)
    \/ \E i \in Invs : CReturn(i)
    \/ \E p \in Ports : AppStarts(p)
    \/ AppStops
    \/ \E rec \in {"missing", "non_object"} : FileLost(rec)

ConcSpec == Init /\ [][ConcNext]_vars

(***************************************************************************)
(* Helpers of the properties.                                              *)
(***************************************************************************)
Blank(s) == \A i \in 1..Len(s) : s[i] \in Whitespace

ListTypes == {"DocsetResults", "SearchResults"}

Items(r) == IF r.type = "DocsetResults" THEN r.docsets ELSE r.results

\* the tool returned from the end of its budgeting loop
ReturnedFromLoop ==
    /\ pc = "done"
    /\ result.type \in ListTypes
    /\ result.error \in Messages

RECURSIVE SumTokens(_)
SumTokens(kept) ==
    IF kept = <<>> THEN 0
    ELSE estimate_tokens(Head(kept)) + SumTokens(Tail(kept))

InLadder ==
    pc \in {"working_api_base_url", "ensure_dash_running", "launch",
            "launch_setapp", "launch_sleep", "recheck", "get_dash_api_port",
            "check_api_health", "enable_api", "enable_api_setapp", "enable_sleep"}

(***************************************************************************)
(* C1.  In one call of working_api_base_url the launch stage is entered at *)
(* most once, the enable-API write stage is entered at most once, and the  *)
(* call always ends (it returns to the tool, or raises into its handler).  *)
(***************************************************************************)
C1_LadderOnceAndEnds ==
    /\ [](calls.launch <= 1 /\ calls.enable <= 1)
    /\ [](InLadder => <>(~InLadder))

C1_Witness ==
    /\ pc = "done"
    /\ calls.launch = 1
    /\ calls.enable = 1
    /\ calls.get_dash_api_port = 2

(***************************************************************************)
(* C2.  get_dash_api_port returns a port only if check_api_health of that  *)
(* very port succeeded in the same call; when the port read from the       *)
(* status record fails its health check, it returns None.                  *)
(***************************************************************************)
C2_PortOnlyIfHealthy ==
    /\ port \in Ports => health = "ok" /\ status_port = port
    /\ health = "failed" => port = NoPort

C2_Witness ==
    /\ status_port \in Ports
    /\ health = "failed"
    /\ port = NoPort
    /\ pc = "enable_api"

(***************************************************************************)
(* C3.  When working_api_base_url yields None, list_installed_docsets,     *)
(* search_documentation and enable_docset_fts return at once with the      *)
(* connectivity error (no items; False for enable_docset_fts) and make no  *)
(* data request.                                                           *)
(***************************************************************************)
C3_AbsentMeansNoRequest ==
    base_url = None =>
        /\ pc = "done"
        /\ calls.request = 0
        /\ op \in {"list", "search", "enable_fts"}
        /\ op = "list" => result = DocsetResults(<<>>, ConnectMsg)
        /\ op = "search" => result = SearchResults(<<>>, ConnectMsg)
        /\ op = "enable_fts" => result = Bool(FALSE)

C3_Witness ==
    /\ base_url = None
    /\ op = "search"
    /\ calls.get_dash_api_port = 2
    /\ result = SearchResults(<<>>, ConnectMsg)

(***************************************************************************)
(* C4, as claimed.  Each of the four tools, on valid input, calls          *)
(* working_api_base_url exactly once, and before any data request.         *)
(***************************************************************************)
C4_EveryToolCallsLadderOnce ==
    /\ pc = "done" /\ ValidationError(op, args) = None =>
            calls.working_api_base_url = 1
    /\ calls.request > 0 => calls.working_api_base_url = 1

(***************************************************************************)
(* C4, amended.  list_installed_docsets, search_documentation and          *)
(* enable_docset_fts call working_api_base_url exactly once on valid       *)
(* input, and it has returned a base URL before their data request;        *)
(* fetch_documentation_content never calls it.                             *)
(***************************************************************************)
C4_ThreeToolsCallLadderOnce ==
    /\ op \in {"list", "search", "enable_fts"} =>
        /\ pc = "done" /\ ValidationError(op, args) = None =>
                calls.working_api_base_url = 1
        /\ calls.request > 0 =>
                /\ calls.working_api_base_url = 1
                /\ calls.request = 1
                /\ port \in Ports
                /\ base_url = BaseUrl(port)
    /\ op = "fetch" => calls.working_api_base_url = 0

C4_Witness ==
    /\ op = "enable_fts"
    /\ calls.request = 1
    /\ calls.working_api_base_url = 1
    /\ result = Bool(TRUE)

(***************************************************************************)
(* C5.  Invalid input (search_documentation: blank query, blank            *)
(* docset_identifiers, max_results outside 1..1000; enable_docset_fts:     *)
(* blank identifier; fetch_documentation_content: blank load_url) is       *)
(* answered with the validation error (False for enable_docset_fts) and    *)
(* nothing has been called: no HTTP request, no process check, no launch,  *)
(* no settings write.                                                      *)
(***************************************************************************)
C5_InvalidInputRejectedFirst ==
    /\ op = "search" /\ (Blank(args.query) \/ Blank(args.docset_identifiers)
                         \/ args.max_results \notin 1..1000) =>
        /\ pc = "done"
        /\ calls = NoCalls
        /\ result.type = "SearchResults"
        /\ result.results = <<>>
        /\ result.error \in
             {Msg("Query cannot be empty"),
              Msg("docset_identifiers cannot be empty. Get the docset identifiers using list_installed_docsets"),
              Msg("max_results must be between 1 and 1000")}
    /\ op = "enable_fts" /\ Blank(args.identifier) =>
        pc = "done" /\ calls = NoCalls /\ result = Bool(FALSE)
    /\ op = "fetch" /\ Blank(args.load_url) =>
        /\ pc = "done"
        /\ calls = NoCalls
        /\ result = DocumentationContent(args.load_url, "Error", <<>>,
                                         Msg("load_url cannot be empty"))

C5_Witness ==
    /\ op = "search"
    /\ args.query = <<"a">>
    /\ args.docset_identifiers = <<" ">>
    /\ pc = "done"
    /\ calls = NoCalls

(***************************************************************************)
(* C6.  The list a tool returns is the first k items of the upstream list, *)
(* in order, for some k with 0 <= k <= total, each converted to its model; *)
(* so is the list kept at every point of the loop.                         *)
(***************************************************************************)
IsPrefixOfUpstream(kept) ==
    /\ Len(kept) <= Len(results)
    /\ \A i \in 1..Len(kept) : kept[i] = BuildResult(op, results[i])

C6_PrefixInOrder ==
    /\ IsPrefixOfUpstream(limited)
    /\ pc = "done" /\ result.type \in ListTypes => IsPrefixOfUpstream(Items(result))

C6_Witness ==
    /\ pc = "done"
    /\ result.type = "SearchResults"
    /\ Len(results) = 2
    /\ result.results = <<BuildResult("search", results[1])>>

C8_BudgetInvariant ==
    /\ current_tokens = 100 + SumTokens(limited)
    /\ current_tokens <= 25000
    /\ pc = "done" /\ result.type \in ListTypes =>
            100 + SumTokens(Items(result)) <= 25000

C8_Witness ==
    /\ pc = "loop_exit"
    /\ current_tokens = 25000
    /\ Len(limited) = 1
    /\ Len(results) = 2

(***************************************************************************)
(* C9.  Running the budgeting loop on the list a tool returned (with the   *)
(* same limit and base overhead) keeps every item: the output is a fixed   *)
(* point of the budgeter.                                                  *)
(***************************************************************************)
C9_BudgeterIdempotent ==
    ReturnedFromLoop =>
        /\ budgeter(op, Items(result)).limited = Items(result)
        /\ budgeter(op, Items(result)).status = "running"

C9_Witness ==
    /\ ReturnedFromLoop
    /\ op = "search"
    /\ Len(results) = 2
    /\ Len(result.results) = 1
    /\ budgeter(op, results).status = "break"

(***************************************************************************)
(* C10.  No tool ends by raising: whatever fails (process check, launch,   *)
(* settings write, status record missing, unreadable or malformed, health  *)
(* probe, transport, HTTP status, response body), the tool returns its own *)
(* result type, and a call that never got to its data request carries an   *)
(* error (False for enable_docset_fts).                                    *)
(***************************************************************************)
ResultTypeOf(o) ==
    CASE o = "list" -> "DocsetResults"
      [] o = "search" -> "SearchResults"
      [] o = "enable_fts" -> "bool"
      [] o = "fetch" -> "DocumentationContent"

C10_NoExceptionEscapes ==
    /\ result.type # "raised"
    /\ pc = "done" =>
        /\ result.type = ResultTypeOf(op)
        /\ calls.request = 0 =>
                IF op = "enable_fts" THEN result.value = FALSE
                ELSE result.error # None

C10_Witness ==
    /\ pc = "done"
    /\ op = "list"
    /\ calls.get_dash_api_port = 1
    /\ calls.check_api_health = 0
    /\ result = DocsetResults(<<>>, Msg("Failed to get installed docsets: {e}"))

(***************************************************************************)
(* C11.  When /search answers with success and its body carries a message  *)
(* (and every hit the loop reaches is well formed), search_documentation    *)
(* returns that message in the error field together with the budgeted hits  *)
(* of the same response: the hits are those the budgeter keeps of the       *)
(* upstream list, with or without a message.                                *)
(***************************************************************************)
C11_MessageKeepsHits ==
    /\ pc = "done"
    /\ op = "search"
    /\ response.kind = "ok"
    /\ warning_message # None
    /\ budgeter("search", results).status # "raised"
    => /\ result = SearchResults(budgeter("search", results).limited,
                                 warning_message)
       /\ result.error = Msg("advisory")

C11_Witness ==
    /\ pc = "done"
    /\ op = "search"
    /\ response.kind = "ok"
    /\ results = <<HitFull, HitOver>>
    /\ result = SearchResults(<<BuildResult("search", HitFull)>>, Msg("advisory"))

(***************************************************************************)
(* C12, as claimed.  Whenever /search answers with status 400 and a body    *)
(* containing "not found", the returned error is the invalid docset         *)
(* identifier message.                                                      *)
(***************************************************************************)
C12_NotFoundMeansInvalidIdentifier ==
    /\ pc = "done"
    /\ op = "search"
    /\ response.kind = "status"
    /\ response.status = 400
    /\ "not found" \in response.body
    => result = SearchResults(<<>>, InvalidDocsetIdentifierMsg)

(***************************************************************************)
(* C12, amended.  When /search answers with an error status, the returned   *)
(* error is the invalid docset identifier message exactly when the status   *)
(* is 400 and the body contains both "Docset with identifier" and           *)
(* "not found"; a 400 body with "not found" alone is not given it.          *)
(***************************************************************************)
C12_BothPhrasesMeanInvalidIdentifier ==
    pc = "done" /\ op = "search" /\ response.kind = "status" =>
        /\ result.type = "SearchResults"
        /\ result.results = <<>>
        /\ result.error = InvalidDocsetIdentifierMsg
             <=> /\ response.status = 400
                 /\ {"Docset with identifier", "not found"} \subseteq response.body

C12_Witness ==
    /\ pc = "done"
    /\ op = "search"
    /\ response = [kind |-> "status", status |-> 400,
                   body |-> {"Docset with identifier", "not found"}]
    /\ result = SearchResults(<<>>, InvalidDocsetIdentifierMsg)

(***************************************************************************)
(* C13.  enable_docset_fts returns True exactly when the identifier is not  *)
(* blank, working_api_base_url gave a base URL, and the GET of              *)
(* /docsets/enable_fts came back with a success status and a JSON body; in  *)
(* every other outcome (blank identifier, no base URL, error status,        *)
(* transport error or timeout, body that is not JSON) it returns False.     *)
(***************************************************************************)
BaseUrlObtained == base_url \in {BaseUrl(p) : p \in Ports}

C13_EnableFtsTrueOnlyOnSuccess ==
    pc = "done" /\ op = "enable_fts" =>
        /\ result.type = "bool"
        /\ result.value = TRUE
             <=> /\ ~Blank(args.identifier)
                 /\ BaseUrlObtained
                 /\ response.kind \in {"ok", "non_object"}
        /\ Blank(args.identifier) => result.value = FALSE
        /\ ~BaseUrlObtained => result.value = FALSE /\ response = NoResponse
        /\ response.kind \in {"status", "transport_error", "bad_json"}
             => result.value = FALSE

C13_Witness ==
    /\ pc = "done"
    /\ op = "enable_fts"
    /\ BaseUrlObtained
    /\ response.kind = "bad_json"
    /\ result = Bool(FALSE)

(***************************************************************************)
(* C14.  The content fetch_documentation_content returns has no run of     *)
(* three or more newlines (no more than one blank line in a row) and no    *)
(* line that ends in a space or a tab, whatever text went into the         *)
(* clean-up, texts whose blank lines hold only spaces or tabs included.    *)
(***************************************************************************)
FetchedContent == pc = "done" /\ op = "fetch" /\ response.kind = "ok"

HasNewlineRun(s, n) ==
    \E i \in 1..Len(s) :
        /\ i + n - 1 <= Len(s)
        /\ \A j \in i..(i + n - 1) : s[j] = "\n"

HasTrailingBlank(s) ==
    \E i \in 1..Len(s) :
        /\ s[i] \in {" ", "\t"}
        /\ i = Len(s) \/ s[i + 1] = "\n"

C14_NoBlankRunNoTrailingBlank ==
    FetchedContent =>
        /\ ~HasNewlineRun(result.content, 3)
        /\ ~HasTrailingBlank(result.content)

(***************************************************************************)
(* C15.  The clean-up is idempotent: applied to the content                *)
(* fetch_documentation_content returned (its own output), the three steps  *)
(* leave it unchanged.                                                     *)
(***************************************************************************)
C15_CleanupIdempotent ==
    FetchedContent => markdown_cleanup(result.content) = result.content

(***************************************************************************)
(* C16.  get_dash_api_port takes an unusable status record for an absent   *)
(* port: when status.json is missing, cannot be parsed, is JSON that is    *)
(* not an object, or is an object without a port, it returns None, without *)
(* raising and without a health probe.                                     *)
(***************************************************************************)
Unusable == {"missing", "malformed", "non_object", "no_port"}

C16_UnusableRecordIsAbsent ==
    status_data \in Unusable =>
        /\ status_port = NoPort
        /\ port = NoPort
        /\ health = "unset"
        /\ pc = "done" => result \in {ConnectivityResult(op)}

(***************************************************************************)
(* C17, as claimed.  Once the process check has passed and the first       *)
(* discovery has returned None, working_api_base_url always writes the     *)
(* enable-API setting for both variants, waits, and makes exactly one more *)
(* discovery, whose port decides what it returns.                          *)
(***************************************************************************)
Remediated == calls.enable >= 1 /\ ~InLadder

C17_RemediationAlwaysCompletes ==
    Remediated =>
        /\ calls.enable = 1
        /\ calls.defaults_write = 2
        /\ calls.enable_sleep = 1
        /\ calls.get_dash_api_port = 2
        /\ base_url = IF port \in Ports THEN BaseUrl(port) ELSE None

(***************************************************************************)
(* C17, amended.  Once the process check has passed and the first          *)
(* discovery has returned None, working_api_base_url attempts the          *)
(* remediation exactly once: it writes the setting for the first variant   *)
(* and then for the second.  If both writes succeed it waits, makes        *)
(* exactly one more discovery and returns the base URL of that discovery's *)
(* port, or None if it gave none.  If a write fails it returns None at     *)
(* once, without the wait and without a second discovery.  There is never  *)
(* a third discovery.                                                      *)
(***************************************************************************)
C17_OneRemediation ==
    calls.enable >= 1 =>
        /\ calls.enable = 1
        /\ dash_running = "True"
        /\ calls.defaults_write <= 2
        /\ calls.enable_sleep <= 1
        /\ calls.get_dash_api_port <= 2
        /\ calls.get_dash_api_port = 2 =>
                calls.defaults_write = 2 /\ calls.enable_sleep = 1
        /\ ~InLadder =>
                \/ /\ calls.enable_sleep = 0
                   /\ calls.get_dash_api_port = 1
                   /\ base_url = None
                \/ /\ calls.defaults_write = 2
                   /\ calls.enable_sleep = 1
                   /\ calls.get_dash_api_port = 2
                   /\ base_url = IF port \in Ports THEN BaseUrl(port) ELSE None
                   /\ port \in Ports => status_data = port /\ health = "ok"

C17_Witness ==
    /\ pc = "request"
    /\ calls.enable = 1
    /\ calls.defaults_write = 2
    /\ calls.enable_sleep = 1
    /\ calls.get_dash_api_port = 2
    /\ base_url = BaseUrl(port)

(***************************************************************************)
(* C18.  When ensure_dash_running fails (the application is not running at *)
(* the first check, and either the launch fails or it is still not running *)
(* after the launch and the wait), working_api_base_url returns None at    *)
(* once: one launch, no discovery, no health probe, no settings write.     *)
(***************************************************************************)
C18_ProcessStageTerminal ==
    dash_running = "False" =>
        /\ pc = "done"
        /\ base_url = None
        /\ result = ConnectivityResult(op)
        /\ calls.launch = 1
        /\ calls.check_dash_running \in {1, 2}
        /\ calls.get_dash_api_port = 0
        /\ calls.check_api_health = 0
        /\ calls.enable = 0
        /\ calls.defaults_write = 0
        /\ calls.request = 0

C18_Witness ==
    /\ dash_running = "False"
    /\ calls.check_dash_running = 2
    /\ calls.sleep = 1
    /\ calls.launch = 1
    /\ base_url = None

(***************************************************************************)
(* C19.  The list a tool returns is the longest prefix of the upstream     *)
(* list whose running total (100 plus the weights of its items) stays      *)
(* within 25,000: when an item is dropped, the first dropped item would    *)
(* have taken the total over the limit, and nothing after it is returned,  *)
(* even an item that would fit by itself.                                  *)
(***************************************************************************)
RECURSIVE PrefixTotal(_, _, _)
PrefixTotal(o, items, j) ==
    IF j = 0 THEN 100
    ELSE PrefixTotal(o, items, j - 1) + estimate_tokens(BuildResult(o, items[j]))

C19_CutoffAtFirstMisfit ==
    ReturnedFromLoop =>
        LET k == Len(Items(result))
        IN  /\ IsPrefixOfUpstream(Items(result))
            /\ PrefixTotal(op, results, k) <= 25000
            /\ k < Len(results) => PrefixTotal(op, results, k + 1) > 25000
            /\ \A j \in (k + 1)..Len(results) :
                    PrefixTotal(op, results, j) > 25000

C19_Witness ==
    /\ ReturnedFromLoop
    /\ op = "list"
    /\ results = <<DocsetFits, DocsetSmall>>
    /\ result.docsets = <<BuildResult("list", DocsetFits)>>

(***************************************************************************)
(* C20, as claimed.  The weight of one item is the number of characters of *)
(* its string fields, divided by 4 and rounded up, at least 1; field names *)
(* and None fields add nothing.                                            *)
(***************************************************************************)
CharsOf(v) == IF v = None THEN 0 ELSE v[2]

ClaimedWeight(m) ==
    Max(1, (SumOver([k \in DOMAIN m |-> CharsOf(m[k])], DOMAIN m) + 3) \div 4)

RECURSIVE SumClaimed(_)
SumClaimed(kept) ==
    IF kept = <<>> THEN 0
    ELSE ClaimedWeight(Head(kept)) + SumClaimed(Tail(kept))

C20_WeightIsCharsOverFourRoundedUp ==
    current_tokens = 100 + SumClaimed(limited)

(***************************************************************************)
(* C20, amended.  The weight of one item is the sum, over every field of   *)
(* its model (the optional fields that are None included), of the weight   *)
(* of the field name and the weight of the value, where a string of n      *)
(* characters weighs n divided by 4 rounded down, at least 1, and None     *)
(* weighs 1.  So a docset weighs 10 for its field names and a search       *)
(* result 12, plus the weights of the values.                              *)
(***************************************************************************)
FieldNameWeight ==
    [name |-> 1, identifier |-> 2, platform |-> 2, full_text_search |-> 4,
     notice |-> 1, type |-> 1, load_url |-> 2, docset |-> 1, description |-> 2,
     language |-> 2, tags |-> 1]

ValueWeight(v) ==
    IF v = None THEN 1 ELSE IF v[2] < 4 THEN 1 ELSE v[2] \div 4

ExpectedWeight(m) ==
    SumOver([k \in DOMAIN m |-> FieldNameWeight[k] + ValueWeight(m[k])], DOMAIN m)

RECURSIVE SumExpected(_)
SumExpected(kept) ==
    IF kept = <<>> THEN 0
    ELSE ExpectedWeight(Head(kept)) + SumExpected(Tail(kept))

C20_WeightCountsNamesAndNone ==
    /\ current_tokens = 100 + SumExpected(limited)
    /\ \A i \in 1..Len(limited) :
            DOMAIN limited[i] = RequiredFields(op) \cup OptionalFields(op)
    /\ limited = <<BuildResult("list", DocsetNoticed)>> => current_tokens = 121
    /\ limited = <<BuildResult("search", HitSmall)>> => current_tokens = 131

C20_Witness ==
    /\ pc = "loop_exit"
    /\ limited = <<BuildResult("list", DocsetNoticed), BuildResult("list", DocsetSmall)>>
    /\ current_tokens = 138

(***************************************************************************)
(* C22.  working_api_base_url leaves the system alone on the healthy path: *)
(* when the first check_dash_running() succeeds nothing is launched (no    *)
(* open, no launch wait); when the first get_dash_api_port returns a live  *)
(* port there is no defaults write and no wait; and a defaults write is    *)
(* made only once ensure_dash_running has returned True and the first      *)
(* get_dash_api_port has returned None.                                    *)
(***************************************************************************)
C22_HealthyPathTouchesNothing ==
    /\ [](dash_running = "True" /\ calls.check_dash_running = 1 =>
            /\ calls.launch = 0
            /\ calls.open = 0
            /\ calls.sleep = calls.enable_sleep)
    /\ [](calls.get_dash_api_port = 1 /\ port \in Ports =>
            /\ calls.enable = 0
            /\ calls.defaults_write = 0
            /\ calls.enable_sleep = 0)
    /\ [][calls'.open > calls.open =>
            /\ dash_running = "unset"
            /\ calls.check_dash_running = 1
            /\ calls.get_dash_api_port = 0]_vars
    /\ [][calls'.defaults_write > calls.defaults_write =>
            /\ dash_running = "True"
            /\ calls.get_dash_api_port = 1
            /\ caller = "first"
            /\ port = NoPort]_vars

C22_Witness ==
    /\ pc = "request"
    /\ dash_running = "True"
    /\ calls.check_dash_running = 1
    /\ calls.get_dash_api_port = 1
    /\ base_url = BaseUrl(port)
    /\ calls.open = 0
    /\ calls.defaults_write = 0
    /\ calls.sleep = 0

(***************************************************************************)
(* C21.  With invocations running side by side or one after another, and   *)
(* the application restarting on another port at any time, the base URL an *)
(* invocation holds for its request, and the URL it requested, is made of  *)
(* a port that this invocation itself read from status.json and saw pass   *)
(* the health probe; it is never the port of another invocation.           *)
(***************************************************************************)
OwnProbedUrl(l, u) ==
    /\ l.port \in l.probed
    /\ l.port = l.status_port
    /\ u = BaseUrl(l.port)

C21_EndpointIsOwn ==
    \A i \in Invs :
        /\ inv[i].pc = "request" => OwnProbedUrl(inv[i], inv[i].base_url)
        /\ inv[i].requested # None => OwnProbedUrl(inv[i], inv[i].requested)
        /\ inv[i].pc = "idle" => inv[i] = IdleInv

C21_Witness ==
    /\ inv[1].pc = "done"
    /\ inv[1].requested = BaseUrl("49152")
    /\ inv[2].pc = "done"
    /\ inv[2].requested = BaseUrl("49153")
    /\ app = "49153"

====
